---- MODULE Spec2Model ----
(***************************************************************************)
(* Model of src/main.py: the ZillowRealEstateAPI search core.              *)
(*                                                                         *)
(*   - record extractor  (_parse_modern_search_results and its helpers)    *)
(*   - region resolver   (_get_region_info, _extract_region_info_modern)   *)
(*   - orchestrator      (find_subject_property_and_comps)                 *)
(*                                                                         *)
(* The network is the environment: every session.get() draws its outcome  *)
(* (transport failure, a status code, a body) when the call is made.       *)
(***************************************************************************)
EXTENDS Integers, Sequences, FiniteSets, TLC

(***************************************************************************)
(* Python values                                                           *)
(***************************************************************************)
\* Optional[X]: None is the empty sequence, a value x is <<x>>.
None == << >>

Some(x) == << x >>

\* the least member of a set of indices, 0 for the empty set
Least(S) == IF S = {} THEN 0 ELSE CHOOSE i \in S : \A j \in S : i <= j

\* A scalar JSON value, by what Python's truth test, int() and float() do
\* with it: "int" n; "numstr" a string of digits reading n; "str" a
\* non-empty string that is no number; "emptystr"; "null".
JInt(n) == [t |-> "int", n |-> n]

JNumStr(n) == [t |-> "numstr", n |-> n]

JStr == [t |-> "str", n |-> 0]

JEmptyStr == [t |-> "emptystr", n |-> 0]

JNull == [t |-> "null", n |-> 0]

\* bool(v)
Truthy(v) ==
    CASE v.t = "int" -> v.n # 0
      [] v.t = "numstr" -> TRUE
      [] v.t = "str" -> TRUE
      [] OTHER -> FALSE

\* int(v) / float(v) raise ValueError or TypeError on these
ConversionRaises(v) == v.t \in {"str", "emptystr", "null"}

\* isinstance(v, int)
IsInt(v) == v.t = "int"

(***************************************************************************)
(* Strings that the code inspects are sequences of tokens, so that         *)
(* startswith() and concatenation are computed and not assumed.            *)
(***************************************************************************)
ZillowHost == << "https://www.zillow.com" >>

\* s.startswith('/')
StartsWithSlash(s) == Len(s) > 0 /\ s[1] = "/"

\* s.startswith('http')
StartsWithHttp(s) ==
    Len(s) > 0 /\ s[1] \in {"https://www.zillow.com", "https://", "http://"}

AddressNotAvailable == "Address not available"

(***************************************************************************)
(* Field normaliser: _parse_price over a text given as its characters      *)
(***************************************************************************)
Digits == {"0", "1", "2", "3", "4", "5", "6", "7", "8", "9"}

DigitVal(c) ==
    CASE c = "0" -> 0 [] c = "1" -> 1 [] c = "2" -> 2 [] c = "3" -> 3
      [] c = "4" -> 4 [] c = "5" -> 5 [] c = "6" -> 6 [] c = "7" -> 7
      [] c = "8" -> 8 [] c = "9" -> 9

IsDigit(c) == c \in Digits

IsDigitOrComma(c) == c \in Digits \cup {","}

\* int() of a string of digits
RECURSIVE IntOfDigits(_)
IntOfDigits(ds) ==
    IF ds = << >> THEN 0
    ELSE 10 * IntOfDigits(SubSeq(ds, 1, Len(ds) - 1)) + DigitVal(ds[Len(ds)])

\* the first maximal run of digits and commas of a text, << >> if none
FirstRun(price_text) ==
    LET first == Least({i \in 1..Len(price_text) : IsDigitOrComma(price_text[i])})
        last == Least({i \in first..Len(price_text) :
                         i = Len(price_text) \/ ~IsDigitOrComma(price_text[i + 1])})
    IN  IF first = 0 THEN << >> ELSE SubSeq(price_text, first, last)

\* variant: the value of the first run only
ParsePriceFirstRun(price_text) == IntOfDigits(SelectSeq(FirstRun(price_text), IsDigit))

\* lines 589-602
_parse_price(price_text) ==
    IF price_text = << >> THEN 0
    ELSE LET price_clean == SelectSeq(price_text, IsDigitOrComma)
             digits == SelectSeq(price_clean, IsDigit)
         IN  IF price_clean = << >> THEN 0
             ELSE IF digits = << >> THEN 0   \* int('') raises ValueError
             ELSE IntOfDigits(digits)

(***************************************************************************)
(* Property (the dataclass)                                                *)
(***************************************************************************)
Property(address, bedrooms, bathrooms, square_feet, price, url, status, sold_date) ==
    [address |-> address, bedrooms |-> bedrooms, bathrooms |-> bathrooms,
     square_feet |-> square_feet, price |-> price, url |-> url,
     status |-> status, sold_date |-> sold_date]

(***************************************************************************)
(* _create_property_from_json: a listing object is a function from the     *)
(* keys it has to their values; "k in listing_data" is k \in DOMAIN.       *)
(***************************************************************************)
Has(listing_data, k) == k \in DOMAIN listing_data

\* dict.get(k, default)
Get(listing_data, k, default) ==
    IF Has(listing_data, k) THEN listing_data[k] ELSE default

price_fields == << "price", "unformattedPrice", "listPrice", "soldPrice" >>

\* variant: the first alias present as a key, whatever its value
PriceFieldFirstPresent(listing_data) ==
    Least({i \in 1..Len(price_fields) : Has(listing_data, price_fields[i])})

\* the index of the alias the price loop stops at, 0 when it stops at none
PriceFieldUsed(listing_data) ==
    LET hit == {i \in 1..Len(price_fields) :
                    /\ Has(listing_data, price_fields[i])
                    /\ Truthy(listing_data[price_fields[i]])}
    IN  Least(hit)

JsonAddress(listing_data) ==
    IF Has(listing_data, "address") THEN listing_data["address"]
    ELSE IF Has(listing_data, "addressStreet") THEN listing_data["addressStreet"]
    ELSE IF Has(listing_data, "fullAddress") THEN listing_data["fullAddress"]
    ELSE AddressNotAvailable

JsonUrl(listing_data) ==
    IF Has(listing_data, "detailUrl") THEN ZillowHost \o listing_data["detailUrl"]
    ELSE IF Has(listing_data, "url") THEN listing_data["url"]
    ELSE IF Has(listing_data, "zpid")
         THEN ZillowHost \o << "/", "homedetails/" >> \o listing_data["zpid"] \o << "_zpid/" >>
    ELSE ZillowHost

_create_property_from_json(listing_data, status) ==
    LET address == JsonAddress(listing_data)
        pf == PriceFieldUsed(listing_data)
        priceRaises == pf # 0 /\ ConversionRaises(listing_data[price_fields[pf]])
        price == IF pf = 0 THEN 0 ELSE listing_data[price_fields[pf]].n
        bedrooms == Get(listing_data, "beds", Get(listing_data, "bedrooms", JInt(0)))
        bathrooms == Get(listing_data, "baths", Get(listing_data, "bathrooms", JInt(0)))
        square_feet == Get(listing_data, "area",
                           Get(listing_data, "livingArea", Get(listing_data, "sqft", JInt(0))))
        url == JsonUrl(listing_data)
        bathRaises == Truthy(bathrooms) /\ ConversionRaises(bathrooms)
    IN  IF priceRaises THEN None          \* except Exception: return None
        ELSE IF price > 0
        THEN IF bathRaises THEN None      \* float(bathrooms) raised
             ELSE Some(Property(address,
                                IF IsInt(bedrooms) THEN bedrooms.n ELSE 0,
                                IF Truthy(bathrooms) THEN bathrooms.n ELSE 0,
                                IF IsInt(square_feet) THEN square_feet.n ELSE 0,
                                price, url, status,
                                IF status = "sold" /\ Has(listing_data, "dateSold")
                                THEN Some(listing_data["dateSold"]) ELSE None))
        ELSE None

(***************************************************************************)
(* Parsed JSON.  A node is a generic dict (ordered key/value pairs), a     *)
(* list, a listing-like object (a dict of scalar fields) or a scalar.      *)
(***************************************************************************)
JDict(kv) == [t |-> "dict", kv |-> kv, items |-> << >>, o |-> << >>]

JList(items) == [t |-> "list", kv |-> << >>, items |-> items, o |-> << >>]

JObj(o) == [t |-> "obj", kv |-> << >>, items |-> << >>, o |-> o]

JScalar == [t |-> "scalar", kv |-> << >>, items |-> << >>, o |-> << >>]

\* isinstance(x, dict)
IsDictNode(x) == x.t \in {"dict", "obj"}

\* isinstance(x, list)
IsListNode(x) == x.t = "list"

KeysOf(x) ==
    IF x.t = "obj" THEN DOMAIN x.o
    ELSE IF x.t = "dict" THEN {x.kv[i].k : i \in 1..Len(x.kv)}
    ELSE {}

\* data[key] of a generic dict
ValueAt(x, key) ==
    LET i == CHOOSE j \in 1..Len(x.kv) : x.kv[j].k = key IN x.kv[i].v

\* the dict handed to _create_property_from_json
ListingOf(x) ==
    IF x.t = "obj" THEN x.o ELSE [key \in KeysOf(x) |-> ValueAt(x, key)]

RECURSIVE Flatten(_)
Flatten(ss) == IF ss = << >> THEN << >> ELSE Head(ss) \o Flatten(Tail(ss))

listing_keys == << "listResults", "searchResults", "results", "listings", "properties" >>

listing_like_keys == {"address", "price", "beds", "baths", "zpid"}

RECURSIVE _find_listings_in_json(_)
_find_listings_in_json(data) ==
    IF data.t = "dict"
    THEN LET byKey == [i \in 1..Len(listing_keys) |->
                          IF /\ listing_keys[i] \in KeysOf(data)
                             /\ IsListNode(ValueAt(data, listing_keys[i]))
                          THEN ValueAt(data, listing_keys[i]).items
                          ELSE << >>]
             nested == [i \in 1..Len(data.kv) |->
                          IF IsDictNode(data.kv[i].v) \/ IsListNode(data.kv[i].v)
                          THEN _find_listings_in_json(data.kv[i].v)
                          ELSE << >>]
         IN  Flatten(byKey) \o Flatten(nested)
    ELSE IF data.t = "list"
    THEN Flatten([i \in 1..Len(data.items) |->
                    LET item == data.items[i]
                    IN  IF IsDictNode(item)
                        THEN IF KeysOf(item) \cap listing_like_keys # {}
                             THEN << item >>
                             ELSE _find_listings_in_json(item)
                        ELSE << >>])
    ELSE << >>

(***************************************************************************)
(* _extract_from_json_scripts.  The document gives, for each of the five   *)
(* json_patterns in order, the texts that pattern matches, each by what    *)
(* json.loads makes of it: a JSONDecodeError, or the parsed value.         *)
(***************************************************************************)
NumJsonPatterns == 5

BadJson == [valid |-> FALSE, value |-> JScalar]

GoodJson(value) == [valid |-> TRUE, value |-> value]

\* the listings of one match (lines 355-363)
ListingsOfMatch(m) ==
    IF ~m.valid THEN << >>                       \* json.JSONDecodeError: continue
    ELSE IF IsListNode(m.value) THEN m.value.items
    ELSE IF IsDictNode(m.value) THEN _find_listings_in_json(m.value)
    ELSE << >>

\* variant: the first listing that gives no record ends the match
PropertiesOfMatchUntilFailure(m, status) ==
    LET listings == ListingsOfMatch(m)
        given == [i \in 1..Len(listings) |->
                    IF IsDictNode(listings[i])
                    THEN LET prop == _create_property_from_json(ListingOf(listings[i]), status)
                         IN  IF prop # None /\ prop[1].price > 0 THEN prop ELSE << >>
                    ELSE << >>]
        stop == Least({i \in 1..Len(listings) : given[i] = << >>})
    IN  Flatten(IF stop = 0 THEN given ELSE SubSeq(given, 1, stop - 1))

\* the properties one match adds (lines 366-370)
PropertiesOfMatch(m, status) ==
    LET listings == ListingsOfMatch(m)
    IN  Flatten([i \in 1..Len(listings) |->
                    IF IsDictNode(listings[i])
                    THEN LET prop == _create_property_from_json(ListingOf(listings[i]), status)
                         IN  IF prop # None /\ prop[1].price > 0 THEN prop ELSE << >>
                    ELSE << >>])

_extract_from_json_scripts(html_content, status) ==
    LET matches == Flatten(html_content.json_matches)
        productive == {i \in 1..Len(matches) : PropertiesOfMatch(matches[i], status) # << >>}
    IN  IF productive = {} THEN << >>
        ELSE PropertiesOfMatch(matches[Least(productive)], status)

(***************************************************************************)
(* HTML property cards.  A card gives, for each selector of each selector  *)
(* list, what card.select_one(selector) finds (None or the element's       *)
(* stripped text), and the href of each <a href> in document order.        *)
(* A details text is given by what _extract_bedrooms, _extract_bathrooms   *)
(* and _extract_square_feet read in it.                                    *)
(***************************************************************************)
NumPriceSelectors == 5

NumAddressSelectors == 5

NumDetailsSelectors == 4

NumPropertySelectors == 7

\* lines 463-470
CardPrice(card) ==
    LET k == Least({i \in 1..NumPriceSelectors :
                      /\ card.price_elems[i] # None
                      /\ _parse_price(card.price_elems[i][1]) > 0})
    IN  IF k = 0 THEN 0 ELSE _parse_price(card.price_elems[k][1])

\* lines 481-486
CardAddress(card) ==
    LET k == Least({i \in 1..NumAddressSelectors : card.addr_elems[i] # None})
    IN  IF k = 0 THEN AddressNotAvailable ELSE card.addr_elems[k][1]

\* lines 496-508
CardDetails(card) ==
    LET k == Least({i \in 1..NumDetailsSelectors :
                      /\ card.details_elems[i] # None
                      /\ \/ card.details_elems[i][1].bedrooms > 0
                         \/ card.details_elems[i][1].bathrooms > 0
                         \/ card.details_elems[i][1].square_feet > 0})
    IN  IF k = 0 THEN [bedrooms |-> 0, bathrooms |-> 0, square_feet |-> 0]
        ELSE card.details_elems[k][1]

\* lines 511-518
CardUrl(card) ==
    IF card.hrefs # << >> /\ card.hrefs[1] # << >>
    THEN LET href == card.hrefs[1]
         IN  IF StartsWithSlash(href) THEN ZillowHost \o href
             ELSE IF StartsWithHttp(href) THEN href
             ELSE ZillowHost
    ELSE ZillowHost

_extract_property_from_modern_card(card, status) ==
    LET price == CardPrice(card)
        address == CardAddress(card)
        details == CardDetails(card)
        url == CardUrl(card)
    IN  IF price > 0 /\ address # AddressNotAvailable
        THEN Some(Property(address, details.bedrooms, details.bathrooms,
                           details.square_feet, price, url, status, None))
        ELSE None

\* variant: the scan goes on to later selectors until one gives a record
ParseCardsUntilRecords(html_content, status) ==
    LET given == [s \in 1..NumPropertySelectors |->
                    Flatten([i \in 1..Len(html_content.cards[s]) |->
                       LET prop == _extract_property_from_modern_card(html_content.cards[s][i],
                                                                      status)
                       IN  IF prop # None /\ prop[1].price > 0 THEN prop ELSE << >>])]
        k == Least({s \in 1..NumPropertySelectors : given[s] # << >>})
    IN  IF k = 0 THEN << >> ELSE given[k]

\* html_content.cards[i] is soup.select(property_selectors[i])
_parse_html_property_cards(html_content, status) ==
    LET k == Least({i \in 1..NumPropertySelectors : html_content.cards[i] # << >>})
    IN  IF k = 0 THEN << >>
        ELSE LET cards == html_content.cards[k]
             IN  Flatten([i \in 1..Len(cards) |->
                            LET prop == _extract_property_from_modern_card(cards[i], status)
                            IN  IF prop # None /\ prop[1].price > 0 THEN prop ELSE << >>])

\* variant: the card scan first, the JSON scan only when it finds nothing
ParseResultsCardsFirst(html_content, status) ==
    LET fromCards == _parse_html_property_cards(html_content, status)
    IN  IF fromCards # << >>
        THEN [properties |-> fromCards, invoked |-> << "html" >>]
        ELSE [properties |-> _extract_from_json_scripts(html_content, status),
              invoked |-> << "html", "json" >>]

\* the records returned, and the strategies run to get them, in order
_parse_modern_search_results(html_content, status) ==
    LET fromJson == _extract_from_json_scripts(html_content, status)
    IN  IF fromJson # << >>
        THEN [properties |-> fromJson, invoked |-> << "json" >>]
        ELSE [properties |-> _parse_html_property_cards(html_content, status),
              invoked |-> << "json", "html" >>]

(***************************************************************************)
(* Bounded inputs of the extractor                                         *)
(***************************************************************************)
\* longest listing array, and most matches of one pattern, in a generated document
MaxItems == 2

\* most cards one selector matches in a generated document
MaxCards == 2

SeqsUpTo(S, n) == UNION {[1..k -> S] : k \in 0..n}

Path1 == << "/", "homedetails/1_zpid/" >>

RelPath == << "homedetails/2_zpid/" >>

AbsUrl == << "https://www.zillow.com", "/", "homedetails/3_zpid/" >>

\* listing objects: with and without an address key, with a price under
\* the first or a later alias, with values int() and float() refuse
\* (address values are strings, url values token sequences)
Listings ==
    { [address |-> "1 Main St", price |-> JInt(5), detailUrl |-> Path1],
      [price |-> JInt(6), zpid |-> << "77" >>],
      [address |-> "2 Oak Ave", zpid |-> << "78" >>],
      [address |-> "3 Elm Rd", price |-> JStr],
      [addressStreet |-> "4 Pine Ln", price |-> JInt(0), unformattedPrice |-> JInt(7),
       url |-> RelPath],
      [fullAddress |-> "5 Fir Ct", price |-> JNull, soldPrice |-> JNumStr(9),
       dateSold |-> "2024-01-01", url |-> AbsUrl],
      [address |-> "6 Ash Dr", price |-> JInt(-5)],
      [address |-> "7 Yew Pl", price |-> JInt(8), baths |-> JStr],
      [address |-> "8 Bay St", price |-> JEmptyStr, listPrice |-> JInt(8),
       beds |-> JInt(3), baths |-> JInt(2), area |-> JInt(100)] }

\* every way the four price aliases can be absent, falsy or positive
AliasListings ==
    { [k \in {"address"} \cup {price_fields[i] : i \in {j \in 1..4 : v[j] # "absent"}} |->
          IF k = "address" THEN "12 Alias Way"
          ELSE LET i == CHOOSE j \in 1..4 : price_fields[j] = k
               IN  IF v[i] = "null" THEN JNull
                   ELSE IF v[i] = "zero" THEN JInt(0)
                   ELSE JInt(i)] :
        v \in [1..4 -> {"absent", "null", "zero", "positive"}] }

\* listings that hold several aliases of the address, the URL and the
\* bedroom count at once
SeveralAliasListings ==
    { [address |-> "9 Oak Ct", addressStreet |-> "9 Oak", fullAddress |-> "9 Oak Ct, Austin",
       price |-> JInt(4), detailUrl |-> Path1, url |-> AbsUrl, zpid |-> << "79" >>,
       beds |-> JNull, bedrooms |-> JInt(3)],
      [addressStreet |-> "10 Elm", fullAddress |-> "10 Elm St, Austin",
       unformattedPrice |-> JInt(4), url |-> AbsUrl, zpid |-> << "80" >>,
       bedrooms |-> JInt(2)] }

Items == {JScalar} \cup {JObj(l) : l \in Listings}

ArrayMatches == {BadJson} \cup {GoodJson(JList(items)) : items \in SeqsUpTo(Items, MaxItems)}

GoodItem == JObj([address |-> "1 Main St", price |-> JInt(5), detailUrl |-> Path1])

NoAddressItem == JObj([price |-> JInt(6), zpid |-> << "77" >>])

\* objects: a listing array under a known key inside nested dicts, and
\* an array of listing-like objects under an unknown key
ObjectMatches ==
    { BadJson,
      GoodJson(JDict(<< [k |-> "props", v |-> JDict(<< [k |-> "searchResults",
                                                       v |-> JList(<< GoodItem, JScalar >>)] >>)] >>)),
      GoodJson(JDict(<< [k |-> "cat1", v |-> JList(<< JDict(<< [k |-> "other",
                                                  v |-> JList(<< NoAddressItem >>)] >>) >>)] >>)),
      GoodJson(JDict(<< [k |-> "x", v |-> JScalar] >>)) }

NoMatches == [i \in 1..NumJsonPatterns |-> << >>]

JsonSides ==
    { [NoMatches EXCEPT ![1] = << m >>] : m \in ArrayMatches }
      \cup { [NoMatches EXCEPT ![1] = ms] : ms \in SeqsUpTo({BadJson, GoodJson(JList(<< GoodItem >>)),
                                                       GoodJson(JList(<< NoAddressItem >>))}, MaxItems) }
      \cup { [NoMatches EXCEPT ![2] = << a >>, ![3] = << b >>] :
                a \in {BadJson, GoodJson(JList(<< GoodItem >>))}, b \in ObjectMatches }

NoElems(n) == [i \in 1..n |-> None]

NoDetails == NoElems(NumDetailsSelectors)

Card(price_elems, addr_elems, details_elems, hrefs) ==
    [price_elems |-> price_elems, addr_elems |-> addr_elems,
     details_elems |-> details_elems, hrefs |-> hrefs]

PriceSides ==
    { NoElems(NumPriceSelectors),
      [NoElems(NumPriceSelectors) EXCEPT ![1] = Some(<< "$", "5" >>)],
      [NoElems(NumPriceSelectors) EXCEPT ![1] = Some(<< "a", "b" >>), ![2] = Some(<< "7" >>)],
      [NoElems(NumPriceSelectors) EXCEPT ![4] = Some(<< "$", "1", ",", "2", "0" >>)],
      [NoElems(NumPriceSelectors) EXCEPT ![1] = Some(<< "," >>)],
      [NoElems(NumPriceSelectors) EXCEPT ![3] = Some(<< "1", " ", "-", " ", "2" >>)] }

AddressSides ==
    { NoElems(NumAddressSelectors),
      [NoElems(NumAddressSelectors) EXCEPT ![1] = Some("9 Card St")],
      [NoElems(NumAddressSelectors) EXCEPT ![5] = Some(AddressNotAvailable)],
      [NoElems(NumAddressSelectors) EXCEPT ![2] = Some(""), ![3] = Some("10 Card Ave")] }

HrefSides == { << >>, << Path1 >>, << RelPath, Path1 >>, << AbsUrl >>, << << >>, Path1 >> }

Cards ==
    { Card(p, a, NoDetails, h) : p \in PriceSides, a \in AddressSides, h \in {<< >>, << Path1 >>} }
      \cup { Card([NoElems(NumPriceSelectors) EXCEPT ![1] = Some(<< "$", "5" >>)],
                  [NoElems(NumAddressSelectors) EXCEPT ![1] = Some("9 Card St")],
                  d, h) :
               d \in { NoDetails,
                       [NoDetails EXCEPT ![1] = Some([bedrooms |-> 0, bathrooms |-> 0, square_feet |-> 0]),
                                         ![3] = Some([bedrooms |-> 3, bathrooms |-> 2, square_feet |-> 0])] },
               h \in HrefSides }

GoodCard ==
    Card([NoElems(NumPriceSelectors) EXCEPT ![1] = Some(<< "$", "5" >>)],
         [NoElems(NumAddressSelectors) EXCEPT ![1] = Some("9 Card St")], NoDetails, << Path1 >>)

BadCard == Card(NoElems(NumPriceSelectors), NoElems(NumAddressSelectors), NoDetails, << >>)

NoCards == [i \in 1..NumPropertySelectors |-> << >>]

CardSides ==
    { [NoCards EXCEPT ![1] = << c >>] : c \in Cards }
      \cup { [NoCards EXCEPT ![2] = cs, ![5] = later] :
                cs \in SeqsUpTo({GoodCard, BadCard,
                                 Card([NoElems(NumPriceSelectors) EXCEPT ![2] = Some(<< "7" >>)],
                                      [NoElems(NumAddressSelectors) EXCEPT ![4] = Some("11 Card Rd")],
                                      NoDetails, << AbsUrl >>)}, MaxCards),
                later \in {<< >>, << GoodCard >>} }

Document(json_matches, cards) == [json_matches |-> json_matches, cards |-> cards]

Documents ==
    { Document(j, c) : j \in JsonSides, c \in {NoCards, [NoCards EXCEPT ![1] = << GoodCard >>]} }
      \cup { Document(j, c) : j \in {NoMatches, [NoMatches EXCEPT ![1] = << BadJson >>],
                                     [NoMatches EXCEPT ![1] = << GoodJson(JList(<< GoodItem >>)) >>]},
                              c \in CardSides }
      \cup { Document([NoMatches EXCEPT ![1] = << GoodJson(JList(<< JObj(l) >>)) >>], NoCards) :
                l \in AliasListings \cup SeveralAliasListings }

Statuses == {"for_sale", "sold"}

(***************************************************************************)
(* URLs and HTTP.  A URL is its base (tokens) and its query, None or the   *)
(* searchQueryState it carries.  A response is an exception raised by      *)
(* session.get, or a status code and a body.                               *)
(***************************************************************************)
Url(base, query) == [base |-> base, query |-> query]

Raised == [raised |-> TRUE, status_code |-> 0, body |-> None]

Response(status_code, body) == [raised |-> FALSE, status_code |-> status_code, body |-> body]

request_delay == 2

SleepEvent == [kind |-> "sleep", seconds |-> request_delay]

GetEvent(url, response) == [kind |-> "get", url |-> url, response |-> response]

\* variant: the request without the delay before it
RequestNoDelay(url, response) == << GetEvent(url, response) >>

\* time.sleep(self.request_delay) then self.session.get(url, timeout=15):
\* lines 143-145 (first candidate), 164-165 (alternatives), 300-301 (search)
Request(url, response) == << SleepEvent, GetEvent(url, response) >>

\* city.lower().replace(' ', '-')
city_formatted(c) ==
    CASE c = "Austin" -> "austin"
      [] c = "New York" -> "new-york"
      [] c = "Miami" -> "miami"

\* city.lower().replace(' ', ' ')
city_key(c) ==
    CASE c = "Austin" -> "austin"
      [] c = "New York" -> "new york"
      [] c = "Miami" -> "miami"

\* state.lower()
state_formatted(st) ==
    CASE st = "TX" -> "tx"
      [] st = "NY" -> "ny"
      [] st = "FL" -> "fl"

(***************************************************************************)
(* Region resolver                                                         *)
(***************************************************************************)
\* the URLs _get_region_info tries, in order: base_url, then alternative_urls
NumCandidates == 4

CandidateUrl(i, c, st) ==
    LET cf == city_formatted(c)
        sf == state_formatted(st)
    IN  CASE i = 1 -> Url(ZillowHost \o << "/", cf, "-", sf, "/" >>, None)
          [] i = 2 -> Url(ZillowHost \o << "/", "homes/", cf, "-", sf, "_rb/" >>, None)
          [] i = 3 -> Url(ZillowHost \o << "/", cf, "_", sf, "/" >>, None)
          [] i = 4 -> Url(ZillowHost \o << "/", "homes/", "for_sale/", cf, "-", sf, "/" >>, None)

\* A region page, by what the regular expressions find in it: the first
\* match of "regionId":(\d+) and of "regionType":(\d+) (None when there is
\* none), and the findall lists of the three id_patterns.
RegionDoc(regionId, regionType, ids) ==
    [regionId |-> regionId, regionType |-> regionType, ids |-> ids]

RegionFound(region_id, region_type) == [region_id |-> region_id, region_type |-> region_type]

_extract_region_info_modern(doc) ==
    LET region_id == IF doc.regionId # None THEN doc.regionId[1] ELSE 0
        region_type == IF doc.regionType # None THEN doc.regionType[1] ELSE 6
        found == Flatten(doc.ids)
        k == Least({i \in 1..Len(found) : 1000 <= found[i] /\ found[i] <= 999999})
    IN  IF region_id # 0 THEN Some(RegionFound(region_id, region_type))
        ELSE IF k # 0 THEN Some(RegionFound(found[k], region_type))
        ELSE None

RegionInfo(region_id, region_type, base_url, c, st) ==
    [region_id |-> region_id, region_type |-> region_type, base_url |-> base_url,
     region_name |-> << c, ", ", st >>, city |-> c, state |-> st]

\* variant: no default region info, None after the last candidate
NextCandidateOrNone(i, c, st) ==
    IF i < NumCandidates
    THEN [returned |-> FALSE, region_info |-> None]
    ELSE [returned |-> TRUE, region_info |-> None]

\* what follows a candidate that gave nothing: the next alternative, or
\* after the last one the default region info (lines 176-185)
NextCandidateOrDefault(i, c, st) ==
    IF i < NumCandidates
    THEN [returned |-> FALSE, region_info |-> None]
    ELSE [returned |-> TRUE,
          region_info |-> Some(RegionInfo(0, 6, CandidateUrl(1, c, st).base, c, st))]

\* _get_region_info from the response of candidate i on: whether it
\* returns now, and what
AfterCandidate(i, response, c, st) ==
    IF response.raised
    THEN IF i = 1
         THEN [returned |-> TRUE, region_info |-> None]     \* outer except: return None
         ELSE NextCandidateOrDefault(i, c, st)              \* inner except: continue
    ELSE IF response.status_code = 200
    THEN LET found == _extract_region_info_modern(response.body[1])
         IN  IF found # None
             THEN [returned |-> TRUE,
                   region_info |-> Some(RegionInfo(found[1].region_id, found[1].region_type,
                                                   CandidateUrl(i, c, st).base, c, st))]
             ELSE NextCandidateOrDefault(i, c, st)
    ELSE NextCandidateOrDefault(i, c, st)

(***************************************************************************)
(* Orchestrator helpers                                                    *)
(***************************************************************************)
\* degrees times 10^7
MapBounds(west, east, south, north) ==
    [west |-> west, east |-> east, south |-> south, north |-> north]

\* self.city_bounds (the 'san francisco' entry has more decimals than the
\* scale keeps and is left out)
city_bounds ==
    [k \in {"los angeles", "new york", "chicago", "miami"} |->
        CASE k = "los angeles" -> MapBounds(-1186681759, -1179441986, 337036917, 343373061)
          [] k = "new york" -> MapBounds(-742590879, -737004681, 404774000, 409176000)
          [] k = "chicago" -> MapBounds(-879401000, -875241000, 416445000, 420230000)
          [] k = "miami" -> MapBounds(-808738000, -801166000, 256634000, 258553000)]

\* lines 89-102
BoundsInUse(bounds, c) ==
    IF bounds # None THEN bounds
    ELSE IF city_key(c) \in DOMAIN city_bounds THEN Some(city_bounds[city_key(c)])
    ELSE Some(MapBounds(-1250000000, -660000000, 250000000, 490000000))

PriceRange == [min |-> 300000, max |-> 500000]

\* variant: the sold filter is never added to the query
SearchUrlNoSoldFilter(info, bounds, st) ==
    Url(ZillowHost \o << "/", city_formatted(info.city), "-", state_formatted(info.state), "/" >>,
        Some([mapBounds |-> bounds,
              price |-> PriceRange,
              regionSelection |-> IF info.region_id > 0
                                  THEN Some([regionId |-> info.region_id,
                                             regionType |-> info.region_type])
                                  ELSE None,
              rs |-> None,
              listPriceActive |-> TRUE]))

\* lines 256-296
SearchUrl(info, bounds, st) ==
    LET base_url == ZillowHost \o << "/", city_formatted(info.city), "-",
                                     state_formatted(info.state), "/" >>
        search_query ==
            [mapBounds |-> bounds,
             price |-> PriceRange,
             regionSelection |-> IF info.region_id > 0
                                 THEN Some([regionId |-> info.region_id,
                                            regionType |-> info.region_type])
                                 ELSE None,
             rs |-> IF st = "sold" THEN Some("SOLD") ELSE None,
             listPriceActive |-> st # "sold"]
    IN  Url(base_url, Some(search_query))

\* variant: one element too many
TakeOneMore(sq, n) == SubSeq(sq, 1, IF Len(sq) < n + 1 THEN Len(sq) ELSE n + 1)

\* properties[:limit]
Take(sq, n) == SubSeq(sq, 1, IF Len(sq) < n THEN Len(sq) ELSE n)

\* the local "properties" of _search_properties_modern (line 307); empty
\* when the request raised or the status is not 200
SearchExtracted(response, st) ==
    IF response.raised THEN << >>
    ELSE IF response.status_code # 200 THEN << >>
    ELSE _parse_modern_search_results(response.body[1], st).properties

\* what _search_properties_modern returns
SearchReturned(response, st, limit) == Take(SearchExtracted(response, st), limit)

\* _format_property_output: the parts of the text, in order
_format_property_output(property_obj, is_comp) ==
    [address |-> property_obj.address,
     bed_text |-> IF property_obj.bedrooms > 0 THEN Some(property_obj.bedrooms) ELSE None,
     bath_text |-> IF property_obj.bathrooms > 0 THEN Some(property_obj.bathrooms) ELSE None,
     sqft_text |-> IF property_obj.square_feet > 0 THEN Some(property_obj.square_feet) ELSE None,
     sold_for |-> is_comp /\ property_obj.status = "sold",
     price |-> property_obj.price,
     url |-> property_obj.url]

\* variant: the last record instead of the first
LastOrNone(subject_properties) ==
    IF subject_properties # << >>
    THEN Some(subject_properties[Len(subject_properties)]) ELSE None

\* subject_properties[0] if subject_properties else None (line 106)
FirstOrNone(subject_properties) ==
    IF subject_properties # << >> THEN Some(subject_properties[1]) ELSE None

\* limit=10 of the sold search (line 112)
comps_limit == 10

\* limit: int = 10, the default the active search runs with (line 253)
default_limit == 10

\* the dict returned when the region is not found (lines 82-87)
RegionNotFound ==
    [error |-> Some("Could not find region information"), subject_property |-> None,
     comparables |-> << >>, total_comps_found |-> 0, region_info |-> None]

\* variant: an empty outcome reported as an error
SearchDoneEmptyIsError(subject, comps, info) ==
    [error |-> IF subject = None /\ comps = << >> THEN Some("No properties found") ELSE None,
     subject_property |-> IF subject # None
                          THEN Some(_format_property_output(subject[1], FALSE)) ELSE None,
     comparables |-> [i \in 1..Len(comps) |-> _format_property_output(comps[i], TRUE)],
     total_comps_found |-> Len(comps),
     region_info |-> info]

\* the dict returned at the end (lines 116-121); PropertySearchResponse
\* gives the missing "error" its default, None
SearchDone(subject, comps, info) ==
    [error |-> None,
     subject_property |-> IF subject # None
                          THEN Some(_format_property_output(subject[1], FALSE)) ELSE None,
     comparables |-> [i \in 1..Len(comps) |-> _format_property_output(comps[i], TRUE)],
     total_comps_found |-> Len(comps),
     region_info |-> info]

(***************************************************************************)
(* Bounded inputs of a search                                              *)
(***************************************************************************)
\* length of the longest listing array a search page carries
MaxListings == 11

RegionDocs ==
    { RegionDoc(None, None, << << >>, << >>, << >> >>),
      RegionDoc(Some(0), Some(8), << << 999, 1000000 >>, << >>, << 42 >> >>),
      RegionDoc(Some(7), Some(8), << << >>, << >>, << >> >>),
      RegionDoc(None, None, << << 999 >>, << 12345, 54321 >>, << >> >>) }

RegionResponses ==
    {Raised, Response(404, None)} \cup {Response(200, Some(d)) : d \in RegionDocs}

ListingPage(n) ==
    Document([NoMatches EXCEPT ![1] =
                 << GoodJson(JList([i \in 1..n |->
                        JObj([address |-> "1 Main St", price |-> JInt(i),
                              detailUrl |-> Path1])])) >>],
             NoCards)

SearchDocuments ==
    { Document(NoMatches, NoCards),
      ListingPage(2),
      ListingPage(MaxListings),
      Document(NoMatches, [NoCards EXCEPT ![1] = << GoodCard, BadCard, GoodCard >>]) }

SearchResponses ==
    {Raised, Response(404, None)} \cup {Response(200, Some(d)) : d \in SearchDocuments}

\* (city, state, map_bounds) of the calls made
Searches ==
    { << "Austin", "TX", None >>,
      << "New York", "NY", None >>,
      << "Austin", "TX", Some(MapBounds(-10, 10, -10, 10)) >> }

(***************************************************************************)
(* State                                                                   *)
(***************************************************************************)
VARIABLES
    pc,                \* where find_subject_property_and_comps stands
    city,              \* its arguments
    state,
    map_bounds,        \* its argument, then the bounds in use
    candidate,         \* index of the next region URL _get_region_info tries
    region_info,       \* what _get_region_info returned (None before)
    events,            \* time.sleep and session.get calls, in order
    subject_property,  \* Optional[Property]
    comparables,       \* the list returned by the sold search
    sold_extracted,    \* what the extractor gave for the sold document
    result,            \* the dict returned (None while running)
    html_content,      \* extractor run on its own: the document
    status,            \*   its status argument
    epc,               \*   "ready" or "returned"
    properties,        \*   the list returned
    invoked,           \*   the strategies run
    price_text,        \* _parse_price run on its own: the text
    ppc,               \*   "ready" or "returned"
    price_value        \*   the integer returned

vars == << pc, city, state, map_bounds, candidate, region_info, events, subject_property,
           comparables, sold_extracted, result, html_content, status, epc,
           properties, invoked, price_text, ppc, price_value >>

searchVars == << pc, city, state, map_bounds, candidate, region_info, events,
                 subject_property, comparables, sold_extracted, result >>

priceVars == << price_text, ppc, price_value >>

extractVars == << html_content, status, epc, properties, invoked, priceVars >>

SearchIdle ==
    /\ pc = "INIT"
    /\ city = "Austin"
    /\ state = "TX"
    /\ map_bounds = None
    /\ candidate = 1
    /\ region_info = None
    /\ events = << >>
    /\ subject_property = None
    /\ comparables = << >>
    /\ sold_extracted = << >>
    /\ result = None

ExtractIdle ==
    /\ html_content = Document(NoMatches, NoCards)
    /\ status = "for_sale"
    /\ epc = "idle"
    /\ properties = << >>
    /\ invoked = << >>

PriceIdle ==
    /\ price_text = << >>
    /\ ppc = "idle"
    /\ price_value = 0

(***************************************************************************)
(* The price normaliser on its own: one call of _parse_price               *)
(***************************************************************************)
\* longest price text
MaxPriceLen == 4

PriceChars == {"$", ",", "-", "0", "1", "2"}

PriceTexts == SeqsUpTo(PriceChars, MaxPriceLen)

InitPrice ==
    /\ SearchIdle
    /\ ExtractIdle
    /\ price_text \in PriceTexts
    /\ ppc = "ready"
    /\ price_value = 0

ParsePrice ==
    /\ ppc = "ready"
    /\ price_value' = _parse_price(price_text)
    /\ ppc' = "returned"
    /\ UNCHANGED price_text
    /\ UNCHANGED searchVars
    /\ UNCHANGED << html_content, status, epc, properties, invoked >>

NextPrice == ParsePrice

SpecPrice == InitPrice /\ [][NextPrice]_vars

(***************************************************************************)
(* The extractor on its own: one call of _parse_modern_search_results      *)
(***************************************************************************)
InitExtract ==
    /\ SearchIdle
    /\ html_content \in Documents
    /\ status \in Statuses
    /\ epc = "ready"
    /\ properties = << >>
    /\ invoked = << >>
    /\ PriceIdle

ParseResults ==
    /\ epc = "ready"
    /\ LET r == _parse_modern_search_results(html_content, status)
       IN  /\ properties' = r.properties
           /\ invoked' = r.invoked
    /\ epc' = "returned"
    /\ UNCHANGED << html_content, status >>
    /\ UNCHANGED priceVars
    /\ UNCHANGED searchVars

NextExtract == ParseResults

SpecExtract == InitExtract /\ [][NextExtract]_vars

(***************************************************************************)
(* One search: find_subject_property_and_comps, a step per request         *)
(***************************************************************************)
Init ==
    /\ pc = "INIT"
    /\ \E sr \in Searches : city = sr[1] /\ state = sr[2] /\ map_bounds = sr[3]
    /\ candidate = 1
    /\ region_info = None
    /\ events = << >>
    /\ subject_property = None
    /\ comparables = << >>
    /\ sold_extracted = << >>
    /\ result = None
    /\ ExtractIdle
    /\ PriceIdle

\* line 79: _get_region_info is called
Start ==
    /\ pc = "INIT"
    /\ pc' = "RESOLVING_REGION"
    /\ UNCHANGED << city, state, map_bounds, candidate, region_info, events,
                    subject_property, comparables, sold_extracted, result >>
    /\ UNCHANGED extractVars

\* variant: a candidate that fails is requested again
TryCandidateAgain ==
    /\ pc = "RESOLVING_REGION"
    /\ \E response \in RegionResponses :
         LET url == CandidateUrl(candidate, city, state)
             after == AfterCandidate(candidate, response, city, state)
         IN  /\ events' = events \o Request(url, response)
             /\ IF after.returned
                THEN /\ region_info' = after.region_info
                     /\ IF after.region_info = None
                        THEN pc' = "REGION_FAILED" /\ result' = Some(RegionNotFound)
                        ELSE pc' = "REGION_READY" /\ result' = result
                ELSE UNCHANGED << pc, region_info, result >>
    /\ UNCHANGED << city, state, map_bounds, candidate, subject_property, comparables,
                    sold_extracted >>
    /\ UNCHANGED extractVars

\* lines 143-185: sleep, request the next candidate URL, and either return
\* (lines 80-87 then decide between failure and going on) or move on
TryCandidate ==
    /\ pc = "RESOLVING_REGION"
    /\ \E response \in RegionResponses :
         LET url == CandidateUrl(candidate, city, state)
             after == AfterCandidate(candidate, response, city, state)
         IN  /\ events' = events \o Request(url, response)
             /\ IF after.returned
                THEN /\ region_info' = after.region_info
                     /\ candidate' = candidate
                     /\ IF after.region_info = None
                        THEN pc' = "REGION_FAILED" /\ result' = Some(RegionNotFound)
                        ELSE pc' = "REGION_READY" /\ result' = result
                ELSE /\ candidate' = candidate + 1
                     /\ UNCHANGED << pc, region_info, result >>
    /\ UNCHANGED << city, state, map_bounds, subject_property, comparables, sold_extracted >>
    /\ UNCHANGED extractVars

\* lines 89-102
UseMapBounds ==
    /\ pc = "REGION_READY"
    /\ map_bounds' = BoundsInUse(map_bounds, city)
    /\ pc' = "SEARCHING_ACTIVE"
    /\ UNCHANGED << city, state, candidate, region_info, events, subject_property,
                    comparables, sold_extracted, result >>
    /\ UNCHANGED extractVars

\* lines 105-109
SearchActive ==
    /\ pc = "SEARCHING_ACTIVE"
    /\ \E response \in SearchResponses :
         LET url == SearchUrl(region_info[1], map_bounds[1], "for_sale")
             subject_properties == SearchReturned(response, "for_sale", default_limit)
         IN  /\ events' = events \o Request(url, response)
             /\ subject_property' = FirstOrNone(subject_properties)
    /\ pc' = "SEARCHING_SOLD"
    /\ UNCHANGED << city, state, map_bounds, candidate, region_info, comparables,
                    sold_extracted, result >>
    /\ UNCHANGED extractVars

\* lines 112-121
SearchSold ==
    /\ pc = "SEARCHING_SOLD"
    /\ \E response \in SearchResponses :
         LET url == SearchUrl(region_info[1], map_bounds[1], "sold")
             comps == SearchReturned(response, "sold", comps_limit)
         IN  /\ events' = events \o Request(url, response)
             /\ sold_extracted' = SearchExtracted(response, "sold")
             /\ comparables' = comps
             /\ result' = Some(SearchDone(subject_property, comps, region_info))
    /\ pc' = "DONE"
    /\ UNCHANGED << city, state, map_bounds, candidate, region_info, subject_property >>
    /\ UNCHANGED extractVars

Next == Start \/ TryCandidate \/ UseMapBounds \/ SearchActive \/ SearchSold

Spec == Init /\ [][Next]_vars

(***************************************************************************)
(* Reading the request log                                                 *)
(***************************************************************************)
IsGet(e) == e.kind = "get"

IsRegionGet(e) == e.kind = "get" /\ e.url.query = None

IsSearchGet(e) == e.kind = "get" /\ e.url.query # None

Gets == SelectSeq(events, IsGet)

RegionGets == SelectSeq(events, IsRegionGet)

SearchGets == SelectSeq(events, IsSearchGet)

Success(response) == ~response.raised /\ response.status_code = 200

NonSuccessStatus(response) == ~response.raised /\ response.status_code # 200

YieldsId(response) ==
    Success(response) /\ _extract_region_info_modern(response.body[1]) # None

\* _get_region_info has returned
ResolverReturned == pc \notin {"INIT", "RESOLVING_REGION"}

Terminal == pc \in {"REGION_FAILED", "DONE"}

IsSoldQuery(e) == e.url.query[1].rs # None

(***************************************************************************)
(* Claims                                                                  *)
(***************************************************************************)

\* C1: every record the extractor returns, from the JSON scan or from the
\* card scan, has price > 0 and an address other than "Address not
\* available".
C1_EmittedRecordsValid ==
    epc = "returned" =>
        \A i \in 1..Len(properties) :
            /\ properties[i].price > 0
            /\ properties[i].address # AddressNotAvailable

\* C2: when every candidate region URL tried returned a non-success
\* status, the search ends with subject_property null, comparables empty,
\* total_comps_found 0 and an error, and no listing search is requested.
C2_AllCandidatesFailGivesError ==
    (/\ ResolverReturned
     /\ \A k \in 1..Len(RegionGets) : NonSuccessStatus(RegionGets[k].response))
    => /\ SearchGets = << >>
       /\ Terminal =>
            /\ result # None
            /\ result[1].subject_property = None
            /\ result[1].comparables = << >>
            /\ result[1].total_comps_found = 0
            /\ result[1].error # None

C4_TransportFailureGoesOn ==
    \A k \in 1..Len(RegionGets) :
        (RegionGets[k].response.raised /\ k < NumCandidates)
        => \/ Len(RegionGets) > k
           \/ pc = "RESOLVING_REGION" /\ candidate = k + 1

C6_BaseUrlOfSuccessfulCandidate ==
    region_info # None =>
        LET yielding == {k \in 1..Len(RegionGets) : YieldsId(RegionGets[k].response)}
        IN  \E k \in 1..Len(RegionGets) :
                /\ RegionGets[k].url.base = region_info[1].base_url
                /\ Success(RegionGets[k].response)
                /\ yielding # {} => k = Least(yielding)
                /\ yielding = {} => region_info[1].region_id = 0

\* C7: both listing searches are requested at the region info's base_url
\* with query parameters appended, whichever candidate form it is.
C7_SearchUsesResolvedBaseUrl ==
    \A k \in 1..Len(SearchGets) :
        /\ region_info # None
        /\ SearchGets[k].url.base = region_info[1].base_url

\* the steps a search may take, as (from, to)
StepOrder ==
    { << "INIT", "RESOLVING_REGION" >>,
      << "RESOLVING_REGION", "RESOLVING_REGION" >>,
      << "RESOLVING_REGION", "REGION_FAILED" >>,
      << "RESOLVING_REGION", "REGION_READY" >>,
      << "REGION_READY", "SEARCHING_ACTIVE" >>,
      << "SEARCHING_ACTIVE", "SEARCHING_SOLD" >>,
      << "SEARCHING_SOLD", "DONE" >> }

\* the request log agrees with the step reached
RequestsInOrder ==
    /\ Gets = RegionGets \o SearchGets
    /\ pc \in {"INIT", "RESOLVING_REGION", "REGION_FAILED", "REGION_READY",
               "SEARCHING_ACTIVE"} => SearchGets = << >>
    /\ pc = "INIT" => events = << >>
    /\ pc = "SEARCHING_SOLD"
         => Len(SearchGets) = 1 /\ ~IsSoldQuery(SearchGets[1])
    /\ pc = "DONE"
         => /\ Len(SearchGets) = 2
            /\ ~IsSoldQuery(SearchGets[1])
            /\ IsSoldQuery(SearchGets[2])

\* as action formulas
StepAllowed == << pc, pc' >> \in StepOrder

NothingAfterFailure == pc = "REGION_FAILED" => events' = events

\* C8: the steps of a search come in the order INIT, RESOLVING_REGION,
\* then REGION_FAILED, or REGION_READY, SEARCHING_ACTIVE, SEARCHING_SOLD,
\* DONE; every region request precedes the active search request, which
\* precedes the sold search request; after REGION_FAILED nothing is
\* requested.
C8_StepsInOrder ==
    /\ [][StepAllowed]_vars
    /\ [][NothingAfterFailure]_vars
    /\ []RequestsInOrder

\* a search that tried every candidate and ran both listing searches
C8_Witness ==
    /\ pc = "DONE"
    /\ Len(RegionGets) = NumCandidates
    /\ Len(SearchGets) = 2
    /\ IsSoldQuery(SearchGets[2])

\* C9: a failed request (non-success status or an exception) in the active
\* or the sold step gives no records for that step only; it is not
\* retried, the search goes on to the next step and to DONE, and the
\* result carries no error, also with no subject and no comparables.
C9_FailedSearchStepIsEmptyNotError ==
    /\ Len(SearchGets) <= 2
    /\ (Len(SearchGets) >= 1 /\ ~Success(SearchGets[1].response))
         => /\ subject_property = None
            /\ pc \in {"SEARCHING_SOLD", "DONE"}
    /\ (Len(SearchGets) = 2 /\ ~Success(SearchGets[2].response))
         => /\ comparables = << >>
            /\ pc = "DONE"
    /\ (Len(SearchGets) = 2 /\ ~Success(SearchGets[1].response)
          /\ Success(SearchGets[2].response))
         => Len(comparables) = Len(Take(sold_extracted, comps_limit))
    /\ (Len(SearchGets) = 2 /\ ~Success(SearchGets[2].response)
          /\ subject_property # None)
         => result[1].subject_property # None
    /\ pc = "SEARCHING_SOLD" => ENABLED SearchSold
    /\ pc = "DONE"
         => /\ result # None
            /\ result[1].error = None
            /\ result[1].total_comps_found = Len(comparables)

\* both listing requests failed, one by an exception: DONE without error
C9_Witness ==
    /\ pc = "DONE"
    /\ Len(SearchGets) = 2
    /\ SearchGets[1].response.raised
    /\ NonSuccessStatus(SearchGets[2].response)
    /\ result[1].error = None
    /\ result[1].subject_property = None
    /\ result[1].comparables = << >>

\* C10: in every completed search the comparables are at most 10, they are
\* the front of the sold extraction in its order, and total_comps_found is
\* their number.
C10_ComparablesCapped ==
    pc = "DONE" =>
        LET comps == result[1].comparables
            sold == IF Success(SearchGets[2].response)
                    THEN _parse_modern_search_results(SearchGets[2].response.body[1],
                                                      "sold").properties
                    ELSE << >>
        IN  /\ Len(comps) <= 10
            /\ Len(comps) = IF Len(sold) < 10 THEN Len(sold) ELSE 10
            /\ \A i \in 1..Len(comps) : comps[i] = _format_property_output(sold[i], TRUE)
            /\ result[1].total_comps_found = Len(comps)

\* a sold page with more than 10 listings, cut to the first 10
C10_Witness ==
    /\ pc = "DONE"
    /\ Len(sold_extracted) > 10
    /\ Len(result[1].comparables) = 10
    /\ result[1].comparables[10].price = 10

\* the records the extractor gives for the page of listing request k
\* (1 the active search, 2 the sold search); none when the request failed
ExtractionOf(k, st) ==
    IF Success(SearchGets[k].response)
    THEN _parse_modern_search_results(SearchGets[k].response.body[1], st).properties
    ELSE << >>

\* C11: the subject is the first record of the active extraction and is
\* absent exactly when that extraction is empty; it never comes from the
\* sold extraction, and the sold search runs with or without a subject.
C11_SubjectIsFirstActive ==
    pc \in {"SEARCHING_SOLD", "DONE"} =>
        LET active == ExtractionOf(1, "for_sale")
        IN  /\ subject_property = None <=> active = << >>
            /\ active # << >>
                 => /\ subject_property = Some(active[1])
                    /\ subject_property[1].status = "for_sale"
            /\ pc = "SEARCHING_SOLD" => ENABLED SearchSold
            /\ pc = "DONE"
                 => /\ Len(SearchGets) = 2 /\ IsSoldQuery(SearchGets[2])
                    /\ result[1].subject_property = None <=> active = << >>
                    /\ active # << >>
                         => result[1].subject_property
                              = Some(_format_property_output(active[1], FALSE))

\* an active page with several records, the first one the subject, and a
\* sold page with records of its own
C11_Witness ==
    /\ pc = "DONE"
    /\ Len(ExtractionOf(1, "for_sale")) > 1
    /\ ExtractionOf(1, "for_sale")[1] # ExtractionOf(1, "for_sale")[2]
    /\ subject_property = Some(ExtractionOf(1, "for_sale")[1])
    /\ ExtractionOf(2, "sold") # << >>
    /\ result[1].subject_property # None

\* no active record: no subject, although the sold page has records
C11_NoSubjectWitness ==
    /\ pc = "DONE"
    /\ ExtractionOf(1, "for_sale") = << >>
    /\ ExtractionOf(2, "sold") # << >>
    /\ result[1].subject_property = None
    /\ result[1].comparables # << >>

\* C12: every request, to a region candidate or to either listing search,
\* comes directly after a delay of the fixed length, on every path.
C12_DelayBeforeEveryFetch ==
    /\ \A i \in 1..Len(events) :
         IsGet(events[i])
           => /\ i > 1
              /\ events[i - 1].kind = "sleep"
              /\ events[i - 1].seconds = request_delay
    /\ Len(events) = 2 * Len(Gets)
    /\ request_delay > 0

\* fallback candidates after a failed first one, and both searches, one of
\* them failing: six requests, each behind its delay
C12_Witness ==
    /\ pc = "DONE"
    /\ Len(RegionGets) = NumCandidates
    /\ Len(SearchGets) = 2
    /\ SearchGets[1].response.raised
    /\ Len(events) = 2 * (NumCandidates + 2)

\* an absolute URL: a scheme and a host, then nothing or a path from "/"
AbsoluteUrl(u) ==
    /\ Len(u) > 0
    /\ \/ u[1] = "https://www.zillow.com" /\ (Len(u) > 1 => u[2] = "/")
       \/ u[1] \in {"https://", "http://"} /\ Len(u) > 1

\* C13: every emitted record carries an absolute, scheme-qualified URL,
\* from the JSON path (detailUrl, url, zpid) and from the card path (first
\* anchor href), also when the source held a relative path or no link.
C13_UrlsAbsolute ==
    epc = "returned" =>
        \A i \in 1..Len(properties) : AbsoluteUrl(properties[i].url)

\* the digits of a text read from the left as one decimal number, every
\* other character passed over
RECURSIVE DigitsValue(_, _)
DigitsValue(text, acc) ==
    IF text = << >> THEN acc
    ELSE DigitsValue(Tail(text),
                     IF IsDigit(Head(text)) THEN 10 * acc + DigitVal(Head(text)) ELSE acc)

\* two digits of the text with a character that is neither a digit nor a
\* comma between them
TwoDigitRuns(text) ==
    \E i, j, k \in 1..Len(text) :
        /\ i < j /\ j < k
        /\ IsDigit(text[i]) /\ ~IsDigitOrComma(text[j]) /\ IsDigit(text[k])

\* C14 (as stated): _parse_price returns the value of the first run of
\* digits and thousands separators only, and 0 when there is none.
C14_FirstRunOnly ==
    ppc = "returned" => price_value = IntOfDigits(SelectSeq(FirstRun(price_text), IsDigit))

\* C14 (amended): _parse_price returns the number read from all the digits
\* of the text in their order, every other character removed, and 0 for a
\* text without digits; it returns an integer for every text.
C14_AllDigitsInOrder ==
    ppc = "returned" =>
        /\ price_value \in Nat
        /\ price_value = DigitsValue(price_text, 0)
        /\ (\A i \in 1..Len(price_text) : ~IsDigit(price_text[i])) => price_value = 0

\* a text with two separate digit runs gives the digits of both
C14_Witness ==
    /\ ppc = "returned"
    /\ TwoDigitRuns(price_text)
    /\ price_value = DigitsValue(price_text, 0)
    /\ price_value # IntOfDigits(SelectSeq(FirstRun(price_text), IsDigit))

\* what one listing of a match gives when it is the only candidate
AcceptedListing(node, st) ==
    IF IsDictNode(node)
    THEN LET prop == _create_property_from_json(ListingOf(node), st)
         IN  IF prop # None /\ prop[1].price > 0 THEN prop ELSE None
    ELSE None

\* what one card gives when it is the only candidate
AcceptedCard(card, st) ==
    LET prop == _extract_property_from_modern_card(card, st)
    IN  IF prop # None /\ prop[1].price > 0 THEN prop ELSE None

\* the candidates of the JSON scan: the listings of the first match that
\* holds an accepted one (no candidates when no match does)
JsonCandidates(doc, st) ==
    LET matches == Flatten(doc.json_matches)
        k == Least({i \in 1..Len(matches) :
                      \E j \in 1..Len(ListingsOfMatch(matches[i])) :
                          AcceptedListing(ListingsOfMatch(matches[i])[j], st) # None})
    IN  IF k = 0 THEN << >> ELSE ListingsOfMatch(matches[k])

\* the candidates of the card scan: the elements of the first selector
\* that matches any
CardCandidates(doc) ==
    LET k == Least({i \in 1..NumPropertySelectors : doc.cards[i] # << >>})
    IN  IF k = 0 THEN << >> ELSE doc.cards[k]

\* out holds, in order, exactly the records of the accepted candidates
EmittedAreTheAccepted(out, accepted) ==
    /\ Len(out) = Cardinality({i \in 1..Len(accepted) : accepted[i] # None})
    /\ \A i \in 1..Len(accepted) :
         accepted[i] # None
           => out[Cardinality({j \in 1..i : accepted[j] # None})] = accepted[i][1]

\* C15: a JSON fragment that does not parse, a listing whose conversion
\* fails and a card with missing sub-elements each remove only themselves:
\* every other candidate of the scan that would be accepted on its own is
\* emitted, in order, whatever the document.
C15_FailureRemovesOnlyTheCandidate ==
    epc = "returned" =>
        LET listings == JsonCandidates(html_content, status)
            cards == CardCandidates(html_content)
        IN  IF listings # << >>
            THEN EmittedAreTheAccepted(properties,
                     [i \in 1..Len(listings) |-> AcceptedListing(listings[i], status)])
            ELSE EmittedAreTheAccepted(properties,
                     [i \in 1..Len(cards) |-> AcceptedCard(cards[i], status)])

\* the conversion of listing_data raises (int() or float() of a value)
ConversionFails(listing_data) ==
    \E key \in {"price", "baths"} \cap DOMAIN listing_data :
        ConversionRaises(listing_data[key])

\* a listing whose conversion fails stands before an accepted one in the
\* same match, and the accepted one is emitted
C15_Witness ==
    /\ epc = "returned"
    /\ LET listings == JsonCandidates(html_content, status)
       IN  /\ Len(listings) = 2
           /\ IsDictNode(listings[1])
           /\ ConversionFails(ListingOf(listings[1]))
           /\ AcceptedListing(listings[1], status) = None
           /\ AcceptedListing(listings[2], status) # None
           /\ properties = AcceptedListing(listings[2], status)

\* an unparseable fragment before a match with an accepted listing
C15_BadFragmentWitness ==
    /\ epc = "returned"
    /\ Len(Flatten(html_content.json_matches)) > 1
    /\ ~Flatten(html_content.json_matches)[1].valid
    /\ properties # << >>
    /\ invoked = << "json" >>

\* a card without a price element beside an accepted card of the same selector
C15_BadCardWitness ==
    /\ epc = "returned"
    /\ invoked = << "json", "html" >>
    /\ LET cards == CardCandidates(html_content)
       IN  /\ Len(cards) = 2
           /\ AcceptedCard(cards[1], status) = None
           /\ CardPrice(cards[1]) = 0
           /\ AcceptedCard(cards[2], status) # None
           /\ properties = AcceptedCard(cards[2], status)

\* the document holds one listing and nothing else
SoleListingDocument ==
    /\ html_content.cards = NoCards
    /\ \A i \in 2..NumJsonPatterns : html_content.json_matches[i] = << >>
    /\ Len(html_content.json_matches[1]) = 1
    /\ html_content.json_matches[1][1].valid
    /\ IsListNode(html_content.json_matches[1][1].value)
    /\ Len(html_content.json_matches[1][1].value.items) = 1
    /\ IsDictNode(html_content.json_matches[1][1].value.items[1])

SoleListing == ListingOf(html_content.json_matches[1][1].value.items[1])

address_fields == << "address", "addressStreet", "fullAddress" >>

bedroom_fields == << "beds", "bedrooms" >>

bathroom_fields == << "baths", "bathrooms" >>

\* key is the first of aliases that listing_data has as a key
FirstPresent(listing_data, aliases, k) ==
    /\ Has(listing_data, aliases[k])
    /\ \A j \in 1..(k - 1) : ~Has(listing_data, aliases[j])

\* C16 (as stated): the price of a record is the value of the first price
\* alias present as a key, whatever that value is.
C16_FirstPresentAliasWins ==
    (epc = "returned" /\ SoleListingDocument /\ properties # << >>) =>
        \E k \in 1..Len(price_fields) :
            /\ FirstPresent(SoleListing, price_fields, k)
            /\ properties[1].price = SoleListing[price_fields[k]].n

\* C16 (amended): the price is the value of the first price alias that is
\* present with a truthy value (an alias holding null, 0 or an empty string
\* is passed over), and there is no record when no alias is; the address
\* and the bedroom count take the first alias present as a key whatever its
\* value, and the URL is built from the first of detailUrl, url, zpid
\* present as a key.
C16_FirstTruthyPriceAlias ==
    (epc = "returned" /\ SoleListingDocument) =>
        LET l == SoleListing
            truthy == {k \in 1..Len(price_fields) :
                           Has(l, price_fields[k]) /\ Truthy(l[price_fields[k]])}
        IN  /\ properties = << >>
                 <=> \/ truthy = {}
                     \/ ConversionRaises(l[price_fields[Least(truthy)]])
                     \/ l[price_fields[Least(truthy)]].n <= 0
                     \/ \E k \in 1..Len(bathroom_fields) :
                           /\ FirstPresent(l, bathroom_fields, k)
                           /\ Truthy(l[bathroom_fields[k]])
                           /\ ConversionRaises(l[bathroom_fields[k]])
            /\ properties # << >> =>
                 /\ \E k \in 1..Len(price_fields) :
                      /\ Has(l, price_fields[k]) /\ Truthy(l[price_fields[k]])
                      /\ \A j \in 1..(k - 1) :
                           ~Has(l, price_fields[j]) \/ ~Truthy(l[price_fields[j]])
                      /\ properties[1].price = l[price_fields[k]].n
                 /\ \A k \in 1..Len(address_fields) :
                      FirstPresent(l, address_fields, k)
                        => properties[1].address = l[address_fields[k]]
                 /\ \A k \in 1..Len(bedroom_fields) :
                      FirstPresent(l, bedroom_fields, k)
                        => properties[1].bedrooms
                             = IF IsInt(l[bedroom_fields[k]]) THEN l[bedroom_fields[k]].n ELSE 0
                 /\ Has(l, "detailUrl") => properties[1].url = ZillowHost \o l["detailUrl"]
                 /\ (~Has(l, "detailUrl") /\ Has(l, "url")) => properties[1].url = l["url"]

\* the price key is present with a falsy value and the record carries the
\* value of a later alias
C16_Witness ==
    /\ epc = "returned"
    /\ SoleListingDocument
    /\ Has(SoleListing, "price")
    /\ ~Truthy(SoleListing["price"])
    /\ properties # << >>
    /\ \E k \in 2..Len(price_fields) :
         /\ Has(SoleListing, price_fields[k])
         /\ properties[1].price = SoleListing[price_fields[k]].n
         /\ properties[1].price # SoleListing["price"].n

\* several address, URL and bedroom aliases at once: the first ones win,
\* the null under beds included
C16_SeveralAliasesWitness ==
    /\ epc = "returned"
    /\ SoleListingDocument
    /\ Has(SoleListing, "address") /\ Has(SoleListing, "addressStreet")
    /\ Has(SoleListing, "beds") /\ Has(SoleListing, "bedrooms")
    /\ properties # << >>
    /\ properties[1].bedrooms = 0

\* the index of the first card selector that matches an element, 0 if none does
FirstMatchingSelector(doc) ==
    Least({s \in 1..NumPropertySelectors : doc.cards[s] # << >>})

\* C17: the card selectors are tried in order and the first one that
\* matches an element is the only one used: every emitted record is the
\* record of an element it matched, also when all its elements are
\* rejected and the scan returns nothing.
C17_FirstMatchingSelectorOnly ==
    (epc = "returned" /\ invoked = << "json", "html" >>) =>
        LET k == FirstMatchingSelector(html_content)
        IN  /\ k = 0 => properties = << >>
            /\ k # 0 =>
                 /\ Len(properties) <= Len(html_content.cards[k])
                 /\ \A i \in 1..Len(properties) :
                      \E j \in 1..Len(html_content.cards[k]) :
                          AcceptedCard(html_content.cards[k][j], status) = Some(properties[i])
                 /\ (\A j \in 1..Len(html_content.cards[k]) :
                        AcceptedCard(html_content.cards[k][j], status) = None)
                      => properties = << >>
                 /\ \A j \in 1..Len(html_content.cards[k]) :
                      AcceptedCard(html_content.cards[k][j], status) # None
                        => \E i \in 1..Len(properties) :
                              Some(properties[i]) = AcceptedCard(html_content.cards[k][j], status)

\* every element of the first matching selector is rejected, a later
\* selector matches a card that would be accepted, and nothing is returned
C17_Witness ==
    /\ epc = "returned"
    /\ invoked = << "json", "html" >>
    /\ FirstMatchingSelector(html_content) # 0
    /\ \A j \in 1..Len(html_content.cards[FirstMatchingSelector(html_content)]) :
         AcceptedCard(html_content.cards[FirstMatchingSelector(html_content)][j], status) = None
    /\ \E s \in (FirstMatchingSelector(html_content) + 1)..NumPropertySelectors :
         \E j \in 1..Len(html_content.cards[s]) :
             AcceptedCard(html_content.cards[s][j], status) # None
    /\ properties = << >>

\* the number of steps a search can still take, at most
StepsLeft ==
    CASE pc = "INIT" -> NumCandidates + 4
      [] pc = "RESOLVING_REGION" -> NumCandidates + 4 - candidate
      [] pc = "REGION_READY" -> 3
      [] pc = "SEARCHING_ACTIVE" -> 2
      [] pc = "SEARCHING_SOLD" -> 1
      [] OTHER -> 0

\* every step of a search brings it nearer to its end
StepsLeftDecrease == StepsLeft' < StepsLeft /\ StepsLeft' >= 0

\* the requests made so far: region candidates first, each once, in the
\* order of the candidates, then the searches
FetchesBounded ==
    /\ Len(RegionGets) <= NumCandidates
    /\ \A i \in 1..Len(RegionGets) :
         /\ RegionGets[i].url = CandidateUrl(i, city, state)
         /\ \A j \in 1..Len(RegionGets) : i # j => RegionGets[i].url # RegionGets[j].url
    /\ \A i, j \in 1..Len(Gets) : (i < j /\ IsSearchGet(Gets[i])) => IsSearchGet(Gets[j])
    /\ Len(SearchGets) <= 2
    /\ region_info = None => SearchGets = << >>
    /\ pc = "REGION_FAILED" => region_info = None /\ SearchGets = << >>
    /\ pc = "DONE"
         => /\ region_info # None
            /\ Len(SearchGets) = 2
            /\ ~IsSoldQuery(SearchGets[1])
            /\ IsSoldQuery(SearchGets[2])
    /\ (Terminal /\ region_info # None) => pc = "DONE"

\* a search that has not ended can take a step
NeverStuck == Terminal \/ ENABLED Next

\* C18: every search ends in REGION_FAILED or DONE after a bounded number
\* of requests: at most four region candidates, each at most once, then
\* exactly one active and one sold search when region info was returned,
\* and no search otherwise.
C18_BoundedFetches ==
    /\ []FetchesBounded
    /\ []NeverStuck
    /\ [][StepsLeftDecrease]_vars

\* all four candidates and both searches were requested
C18_Witness ==
    /\ pc = "DONE"
    /\ Len(RegionGets) = NumCandidates
    /\ Len(SearchGets) = 2
    /\ StepsLeft = 0

\* the resolver gave up after its first request and nothing was searched
C18_FailedWitness ==
    /\ pc = "REGION_FAILED"
    /\ Len(Gets) = 1
    /\ StepsLeft = 0

====
